---- MODULE Spec2Model ----
(***************************************************************************)
(* Model of the Discord bot of unitedoperations/uo-discordbot (class Bot): *)
(* the gRPC role provisioning handlers (getUserRoles, provisionUserRoles), *)
(* the command registry (addCommand, start), the message dispatcher        *)
(* (_onMessage) and the routines the bot runs on intervals (start, clear,  *)
(* _notifyOfActiveGroups), the audit of deleted messages                   *)
(* (_logMessageDelete), and the cache of calendar events (EventStore).     *)
(* Asynchronous handlers are split at their awaits: one action runs a      *)
(* handler from one suspension point to the next.                          *)
(***************************************************************************)
EXTENDS Integers, Sequences, FiniteSets, TLC

VARIABLES
    guild,          \* this._guild: Null until the client's ready event
    roles,          \* member id -> set of role ids held (GuildMember.roles)
    call,           \* the provisionUserRoles call in flight, or the last one
    rival,          \* a second provisionUserRoles call, in flight with the first
    reply,          \* what the last getUserRoles call returned
    commands,       \* this._commands: keyword -> handler
    descriptions,   \* this._descriptions: keyword -> help text
    registered,     \* history: keyword -> the handler last registered under it
    adds,           \* history: the number of addCommand calls made
    phase,          \* "setup", "login" (start awaits the login) or "running"
    exitStatus,     \* NotExited, or the status process.exit was called with
    REQUEST_COUNT,  \* Bot.REQUEST_COUNT
    msgs,           \* the message events being handled, by slot
    gone,           \* the message a user deleted last, and what was logged for it
    routines,       \* Routines: the routine table, name -> routine
    timers,         \* the interval timers that are running
    calls,          \* routine -> its callback invocations awaiting a result
    slog,           \* what the last step of the scheduler logged
    regs,           \* history: the routines created, in order, and their runs
    _events,        \* EventStore._events: event id -> CalendarEvent
    lastAdd         \* history: the arguments of the last EventStore.add call

provVars == <<guild, roles, call, rival, reply>>
regVars == <<commands, descriptions, registered, adds>>
dispVars == <<commands, descriptions, registered, adds, phase, exitStatus,
              REQUEST_COUNT, msgs>>
routVars == <<routines, timers, calls, slog, regs>>
storeVars == <<_events, lastAdd>>
vars == <<guild, roles, call, rival, reply, commands, descriptions, registered, adds,
          phase, exitStatus, REQUEST_COUNT, msgs, gone, routines, timers, calls, slog,
          regs, _events, lastAdd>>

----------------------------------------------------------------------------
(* Bounds *)

\* Most role names in the assign list and the revoke list of one
\* provisioning request, taken together.
MaxLen == 2

\* Most addCommand calls of one startup.
MaxAdds == 3

\* Most command messages counted by Bot.REQUEST_COUNT.
MaxRequests == 2

\* Most routines created in one run of the process.
MaxRegs == 2

\* Most invocations of the routines' callbacks awaiting a result at once.
MaxInflight == 1

----------------------------------------------------------------------------
(* The guild: the collaborator objects the handlers read *)

Null == "null"

\* What Collection.find returns over guild.roles when no role matches.
NoRole == [id |-> Null, name |-> Null]

\* this._guild.roles: the role catalog, in collection order.
GuildRoles == << [id |-> "r1", name |-> "A"], [id |-> "r2", name |-> "B"] >>

\* this._guild.members: the member ids, in collection order.
GuildMembers == << "u1", "u2" >>

RoleIds == { GuildRoles[i].id : i \in DOMAIN GuildRoles }
MemberIds == { GuildMembers[i] : i \in DOMAIN GuildMembers }

\* The user ids an RPC caller sends: the members, and one that is no member.
UserIds == MemberIds \cup { "ghost" }

\* The role names an RPC caller sends: "X" is in no catalog.
RoleNames == { "A", "B", "X" }

\* The string that stands for "revoke every role" in a revoke list.
AllSentinel == "Symbol(all)"

Min(S) == CHOOSE x \in S : \A y \in S : x <= y

\* Collection.find(m => m.user.id === id) over guild.members: the member or null.
FindMember(id) ==
    LET hits == { i \in DOMAIN GuildMembers : GuildMembers[i] = id }
    IN  IF hits = {} THEN Null ELSE GuildMembers[Min(hits)]

\* Collection.find(r => r.name === name) over guild.roles: the first role of
\* that name, or null.
FindRole(name) ==
    LET hits == { i \in DOMAIN GuildRoles : GuildRoles[i].name = name }
    IN  IF hits = {} THEN NoRole ELSE GuildRoles[Min(hits)]

\* The loop "for (const role of payload.roles) { find; if (guildRole) push }":
\* the roles the names resolve to, unresolved names skipped.
RECURSIVE ResolveRoles(_)
ResolveRoles(names) ==
    IF names = << >> THEN << >>
    ELSE LET r == FindRole(Head(names))
         IN  IF r = NoRole THEN ResolveRoles(Tail(names))
             ELSE << r >> \o ResolveRoles(Tail(names))

IdsOf(roleSeq) == { roleSeq[i].id : i \in DOMAIN roleSeq }

RoleById(rid) == GuildRoles[CHOOSE i \in DOMAIN GuildRoles : GuildRoles[i].id = rid]

\* member.roles.map(r => r.name)
RoleNamesOf(held) == { RoleById(rid).name : rid \in held }

\* Array.prototype.join(sep): the pieces of the joined string.
RECURSIVE Join(_, _)
Join(strs, sep) ==
    IF strs = << >> THEN << >>
    ELSE IF Len(strs) = 1 THEN << strs[1] >>
    ELSE << strs[1], sep >> \o Join(Tail(strs), sep)

----------------------------------------------------------------------------
(* Role provisioning: provisionUserRoles, _assignUserRoles, _revokeUserRoles *)

\* The requests of an RPC caller: lists of role names, the revoke list
\* possibly the one-element list holding the sentinel.
NameLists(n) == UNION { [1..k -> RoleNames] : k \in 0..n }

Requests ==
    { [id |-> u, assign |-> a, revoke |-> r] :
        u \in UserIds,
        a \in NameLists(MaxLen),
        r \in NameLists(MaxLen) \cup { << AllSentinel >> } }

BoundedRequests ==
    { q \in Requests :
        Len(q.assign) + (IF q.revoke = << AllSentinel >> THEN 0 ELSE Len(q.revoke))
            <= MaxLen }

\* What the platform does with the embed sent to the log channel: delivered;
\* the send (or the building of the embed) throws synchronously; or the
\* promise send() returned rejects later, which nothing awaits.
AuditOutcomes == { "sent", "throws", "rejects" }

\* No getUserRoles call has returned since the last provisioning call.
NoReply ==
    [ asked |-> FALSE, guild |-> Null, id |-> Null, threw |-> FALSE, users |-> << >> ]

IdleCall ==
    [ pc |-> "idle", id |-> Null, assign |-> << >>, revoke |-> << >>,
      success |-> TRUE, result |-> FALSE, pending |-> {}, log |-> << >>,
      before |-> [m \in MemberIds |-> {}], faulted |-> FALSE, repeat |-> FALSE ]

ErrorEntry(tag) == [ kind |-> "error", tag |-> tag ]

\* log.error(tag) inside a catch block.
LogError(c, tag) == [c EXCEPT !.log = Append(@, ErrorEntry(tag))]

\* _logRoleChangeFromAuth(user, action, result): the send is not awaited, so
\* only a synchronous throw reaches the catch.
_logRoleChangeFromAuth(c, member, action, result, outcome) ==
    CASE outcome = "sent" ->
            [c EXCEPT !.log = Append(@, [ kind |-> "audit", tag |-> action,
                                           member |-> member, result |-> result ])]
      [] outcome = "throws" -> LogError(c, "ROLE_CHANGE_LOG_FAILED")
      [] OTHER ->
            [c EXCEPT !.log = Append(@, [ kind |-> "unhandled", tag |-> action ])]

\* provisionUserRoles returns: "return success".
Return(c) == [c EXCEPT !.pc = "done", !.result = c.success]

\* A catch block that logs and returns true.
PhaseFailed_ReturnsTrue(c, tag) ==
    [ LogError(c, tag) EXCEPT !.faulted = TRUE ]

\* A phase's catch block: log.error(tag), return false; the caller computes
\* success = success && false.
PhaseFailed(c, tag) ==
    [ LogError(c, tag) EXCEPT !.success = FALSE, !.faulted = TRUE ]

\* _revokeUserRoles with the sentinel taken for a role name.
RevokeStart_SentinelAsName(c, g, rs, f) ==
    LET member == FindMember(c.id)
    IN  IF g = Null \/ member = Null
        THEN Return([ LogError(c, "AUTH_REVOKE_FAILURE") EXCEPT !.success = FALSE ])
        ELSE [c EXCEPT !.pc = "revoke_wait",
                       !.pending = rs[member] \ IdsOf(ResolveRoles(c.revoke))]

\* _revokeUserRoles removing every role of the member for a list of names too.
RevokeStart_StripsAll(c, g, rs, f) ==
    LET member == FindMember(c.id)
    IN  IF g = Null \/ member = Null
        THEN Return([ LogError(c, "AUTH_REVOKE_FAILURE") EXCEPT !.success = FALSE ])
        ELSE [c EXCEPT !.pc = "revoke_wait", !.pending = {}]

\* _revokeUserRoles up to its await, or to its return when it does not await.
RevokeStart(c, g, rs, f) ==
    LET member == FindMember(c.id)
        all == Len(c.revoke) = 1 /\ c.revoke[1] = AllSentinel
    IN  IF g = Null
        THEN \* this._guild!.members throws
             Return(PhaseFailed(c, "AUTH_REVOKE_FAILURE"))
        ELSE IF all /\ member = Null
        THEN \* rolesToRevoke = member.roles throws
             Return([ LogError(c, "AUTH_REVOKE_FAILURE") EXCEPT !.success = FALSE ])
        ELSE IF member # Null
        THEN [c EXCEPT !.pc = "revoke_wait",
                       !.pending = IF all THEN rs[member] \ rs[member]
                                   ELSE rs[member] \ IdsOf(ResolveRoles(c.revoke))]
        ELSE \* no member: removeRoles is skipped, member.user.username throws
             Return([ LogError(c, "AUTH_REVOKE_FAILURE") EXCEPT !.success = FALSE ])

\* provisionUserRoles running its revocation step whatever the assignment
\* step returned: "success = (await ...) && success".
AfterAssign_RevokesAnyway(c, g, rs, f) ==
    IF Len(c.revoke) > 0
    THEN RevokeStart(c, g, rs, f)
    ELSE Return(c)

\* provisionUserRoles returning what its last phase returned: "success =
\* await ..." in place of "success = success && (await ...)".
AfterAssign_LastPhaseWins(c, g, rs, f) ==
    IF Len(c.revoke) > 0
    THEN RevokeStart([c EXCEPT !.success = TRUE], g, rs, f)
    ELSE Return(c)

\* provisionUserRoles after its assignment step: "success && (await ...)" does
\* not call _revokeUserRoles once success is false.
AfterAssign(c, g, rs, f) ==
    IF Len(c.revoke) > 0 /\ c.success
    THEN RevokeStart(c, g, rs, f)
    ELSE Return(c)

\* _assignUserRoles calling setRoles: the member's roles are replaced.
AssignStart_Replaces(c, g, rs, f) ==
    LET member == FindMember(c.id)
    IN  IF g = Null
        THEN AfterAssign(PhaseFailed(c, "AUTH_PROVISIONING_FAILURE"), g, rs, f)
        ELSE IF member # Null
        THEN [c EXCEPT !.pc = "assign_wait",
                       !.pending = IdsOf(ResolveRoles(c.assign))]
        ELSE AfterAssign(
                 _logRoleChangeFromAuth(c, Null, "AUTH_PROVISIONING",
                                        Join(c.assign, ", "), f.audit),
                 g, rs, f)

\* _assignUserRoles up to its await, or through its return when it does not
\* await, and then on into provisionUserRoles.
AssignStart(c, g, rs, f) ==
    LET member == FindMember(c.id)
    IN  IF g = Null
        THEN AfterAssign(PhaseFailed(c, "AUTH_PROVISIONING_FAILURE"), g, rs, f)
        ELSE IF member # Null
        THEN [c EXCEPT !.pc = "assign_wait",
                       !.pending = rs[member] \cup IdsOf(ResolveRoles(c.assign))]
        ELSE AfterAssign(
                 _logRoleChangeFromAuth(c, Null, "AUTH_PROVISIONING",
                                        Join(c.assign, ", "), f.audit),
                 g, rs, f)

\* provisionUserRoles(id, assign, revoke) from its entry to its first await.
provisionUserRoles(q, g, rs, f, again) ==
    LET c == [ IdleCall EXCEPT !.id = q.id, !.assign = q.assign,
                               !.revoke = q.revoke, !.before = rs,
                               !.repeat = again ]
    IN  IF Len(q.assign) > 0 THEN AssignStart(c, g, rs, f)
        ELSE AfterAssign(c, g, rs, f)

\* _assignUserRoles writing the names of the roles it added to the audit
\* entry, in place of the names requested.
AssignResume_LogsResolved(c, g, rs, ok, f) ==
    IF ok
    THEN AfterAssign(
             _logRoleChangeFromAuth(c, FindMember(c.id), "AUTH_PROVISIONING",
                 Join([ i \in DOMAIN ResolveRoles(c.assign) |->
                          ResolveRoles(c.assign)[i].name ], ", "),
                 f.audit),
             g, rs, f)
    ELSE AfterAssign(PhaseFailed(c, "AUTH_PROVISIONING_FAILURE"), g, rs, f)

\* The rest of _assignUserRoles once addRoles settled, and on into
\* provisionUserRoles.
AssignResume(c, g, rs, ok, f) ==
    IF ok
    THEN AfterAssign(
             _logRoleChangeFromAuth(c, FindMember(c.id), "AUTH_PROVISIONING",
                                    Join(c.assign, ", "), f.audit),
             g, rs, f)
    ELSE AfterAssign(PhaseFailed(c, "AUTH_PROVISIONING_FAILURE"), g, rs, f)

\* The rest of _revokeUserRoles once removeRoles settled.
RevokeResume(c, ok, f) ==
    IF ok
    THEN Return(_logRoleChangeFromAuth(c, FindMember(c.id), "AUTH_REVOKE",
                                       << c.id, " roles revoked" >>, f.audit))
    ELSE Return(PhaseFailed(c, "AUTH_REVOKE_FAILURE"))

Faults == [ audit : AuditOutcomes ]

\* The client's ready event: this._guild is set.
ClientReady ==
    /\ guild = Null
    /\ guild' = "guild"
    /\ UNCHANGED <<storeVars, gone, dispVars, routVars, rival, roles, call, reply>>

\* An RPC caller invokes Provision; the callers serialize their calls.
ProvisionCall(q, f) ==
    /\ call.pc = "idle"
    /\ call' = provisionUserRoles(q, guild, roles, f, FALSE)
    /\ reply' = NoReply
    /\ UNCHANGED <<storeVars, gone, dispVars, routVars, rival, guild, roles>>

\* The caller sends the request it has just sent once more.
ProvisionAgain(f) ==
    /\ call.pc = "done"
    /\ call' = provisionUserRoles(
                   [ id |-> call.id, assign |-> call.assign, revoke |-> call.revoke ],
                   guild, roles, f, ~call.faulted /\ call.result = TRUE)
    /\ reply' = NoReply
    /\ UNCHANGED <<storeVars, gone, dispVars, routVars, rival, guild, roles>>

\* The RPC transport sends the returned Status to the caller.
ProvisionReplied ==
    /\ call.pc = "done"
    /\ call' = IdleCall
    /\ UNCHANGED <<storeVars, gone, dispVars, routVars, rival, guild, roles, reply>>

\* addRoles taking effect on every member of the guild.
AddRolesSettles_WholeGuild(ok, f) ==
    /\ call.pc = "assign_wait"
    /\ roles' = IF ok THEN [ m \in MemberIds |-> call.pending ] ELSE roles
    /\ call' = AssignResume(call, guild, roles', ok, f)
    /\ UNCHANGED <<storeVars, gone, dispVars, routVars, rival, guild, reply>>

\* member.addRoles(rolesToAdd, reason) settles: the platform set the member's
\* roles to the list the call sent, or refused.
AddRolesSettles(ok, f) ==
    /\ call.pc = "assign_wait"
    /\ roles' = IF ok THEN [roles EXCEPT ![call.id] = call.pending] ELSE roles
    /\ call' = AssignResume(call, guild, roles', ok, f)
    /\ UNCHANGED <<storeVars, gone, dispVars, routVars, rival, guild, reply>>

\* member.removeRoles(rolesToRevoke, reason) settles.
RemoveRolesSettles(ok, f) ==
    /\ call.pc = "revoke_wait"
    /\ roles' = IF ok THEN [roles EXCEPT ![call.id] = call.pending] ELSE roles
    /\ call' = RevokeResume(call, ok, f)
    /\ UNCHANGED <<storeVars, gone, dispVars, routVars, rival, guild, reply>>

\* The log channel takes every audit entry.
Delivered == [ audit |-> "sent" ]

\* The requests of two callers that do not wait for one another.
RaceRequests ==
    { [ id |-> u, assign |-> a, revoke |-> r ] :
        u \in MemberIds,
        a \in { << >>, << "A" >> },
        r \in { << >>, << "B" >>, << AllSentinel >> } }

\* A second caller invokes Provision while the first call is in flight.
RivalCall(q, f) ==
    /\ call.pc \in { "assign_wait", "revoke_wait" }
    /\ rival.pc = "idle"
    /\ rival' = provisionUserRoles(q, guild, roles, f, FALSE)
    /\ UNCHANGED <<storeVars, gone, dispVars, routVars, guild, roles, call, reply>>

\* The RPC transport sends the Status of the second call to its caller.
RivalReplied ==
    /\ rival.pc = "done"
    /\ rival' = IdleCall
    /\ UNCHANGED <<storeVars, gone, dispVars, routVars, guild, roles, call, reply>>

\* member.addRoles of the second call settles.
RivalAddRolesSettles(ok, f) ==
    /\ rival.pc = "assign_wait"
    /\ roles' = IF ok THEN [roles EXCEPT ![rival.id] = rival.pending] ELSE roles
    /\ rival' = AssignResume(rival, guild, roles', ok, f)
    /\ UNCHANGED <<storeVars, gone, dispVars, routVars, guild, call, reply>>

\* member.removeRoles of the second call settles.
RivalRemoveRolesSettles(ok, f) ==
    /\ rival.pc = "revoke_wait"
    /\ roles' = IF ok THEN [roles EXCEPT ![rival.id] = rival.pending] ELSE roles
    /\ rival' = RevokeResume(rival, ok, f)
    /\ UNCHANGED <<storeVars, gone, dispVars, routVars, guild, call, reply>>

\* getUserRoles answering a query for one id with the first member's entry.
getUserRoles_FirstMember(id, g, rs) ==
    IF g = Null \/ (id # "" /\ FindMember(id) = Null)
    THEN [ NoReply EXCEPT !.asked = TRUE, !.guild = g, !.id = id, !.threw = TRUE ]
    ELSE IF id # ""
    THEN [ NoReply EXCEPT !.asked = TRUE, !.guild = g, !.id = id, !.users =
             << [ id |-> id, roles |-> RoleNamesOf(rs[GuildMembers[1]]) ] >> ]
    ELSE [ NoReply EXCEPT !.asked = TRUE, !.guild = g, !.id = id, !.users =
             [ i \in DOMAIN GuildMembers |->
                 [ id |-> GuildMembers[i],
                   roles |-> RoleNamesOf(rs[GuildMembers[i]]) ] ] ]

\* getUserRoles(id): "" stands for the omitted id.  Reading this._guild
\* before the ready event, or the roles of a member find did not return,
\* throws.
getUserRoles(id, g, rs) ==
    IF g = Null THEN [ NoReply EXCEPT !.asked = TRUE, !.guild = g, !.id = id, !.threw = TRUE ]
    ELSE IF id # ""
    THEN IF FindMember(id) = Null
         THEN [ NoReply EXCEPT !.asked = TRUE, !.guild = g, !.id = id, !.threw = TRUE ]
         ELSE [ NoReply EXCEPT !.asked = TRUE, !.guild = g, !.id = id, !.users =
                  << [ id |-> id, roles |-> RoleNamesOf(rs[FindMember(id)]) ] >> ]
    ELSE [ NoReply EXCEPT !.asked = TRUE, !.guild = g, !.id = id, !.users =
             [ i \in DOMAIN GuildMembers |->
                 [ id |-> GuildMembers[i],
                   roles |-> RoleNamesOf(rs[GuildMembers[i]]) ] ] ]

GetUserRoles(id) ==
    /\ call.pc = "idle"
    /\ reply' = getUserRoles(id, guild, roles)
    /\ UNCHANGED <<storeVars, gone, dispVars, routVars, rival, guild, roles, call>>

----------------------------------------------------------------------------
(* Strings: a string the code takes apart is the sequence of its characters *)

Str_shutdown == << "s", "h", "u", "t", "d", "o", "w", "n" >>
Str_config == << "c", "o", "n", "f", "i", "g" >>
Str_join_group == << "j", "o", "i", "n", "_", "g", "r", "o", "u", "p" >>
Str_leave_group == << "l", "e", "a", "v", "e", "_", "g", "r", "o", "u", "p" >>
Str_polls == << "p", "o", "l", "l", "s" >>
Str_primary == << "p", "r", "i", "m", "a", "r", "y" >>
Str_ratio == << "r", "a", "t", "i", "o" >>
Str_help == << "h", "e", "l", "p" >>
Str_question == << "?" >>

\* String.prototype.startsWith(ch) for a one-character ch.
StartsWith(s, ch) == Len(s) > 0 /\ s[1] = ch

\* String.prototype.slice(1).
Slice1(s) == IF Len(s) = 0 THEN << >> ELSE Tail(s)

\* String.prototype.split(' '): the pieces between the spaces; an empty
\* string gives one empty piece.
RECURSIVE Split(_)
Split(s) ==
    LET spaces == { i \in 1..Len(s) : s[i] = " " }
    IN  IF spaces = {} THEN << s >>
        ELSE << SubSeq(s, 1, Min(spaces) - 1) >>
                 \o Split(SubSeq(s, Min(spaces) + 1, Len(s)))

----------------------------------------------------------------------------
(* The routine scheduler: Routine, the Routines table, and the bot's use of  *)
(* them in start and clear.  Time is counted in hours.                      *)

\* The interval of the bot's "groups" routine: 2 * 60 * 60 * 1000 ms.
GroupsInterval == 2

\* The names routines are added under.
RoutineNames == { "groups", "calendar" }

\* The intervals of the routines other components create.
Intervals == { 1 }

\* new Routine(cb, args, interval): reg tells the Routine objects apart.
Routine(reg, cb, interval) == [ reg |-> reg, cb |-> cb, interval |-> interval ]

\* The interval timer of a routine: the first run is due once the interval
\* has elapsed, not at once.
TimerOf(routine) ==
    [ reg |-> routine.reg, cb |-> routine.cb, interval |-> routine.interval,
      left |-> routine.interval ]

\* The scheduler with no routine.
NoRoutines == [ table |-> [ n \in {} |-> Routine(0, "task", 1) ], timers |-> {} ]

\* Routines.terminate(name): the timer of the routine of that name is
\* cancelled and the name leaves the table; nothing happens for a name the
\* table does not hold.
RoutinesTerminate(st, name) ==
    IF name \notin DOMAIN st.table THEN st
    ELSE [ table |-> [ n \in DOMAIN st.table \ { name } |-> st.table[n] ],
           timers |-> { t \in st.timers : t.reg # st.table[name].reg } ]

\* Routines.add(name, routine): the routine takes the name, its timer
\* starts, and the timer of a routine that held the name is cancelled.
RoutinesAdd(st, name, routine) ==
    LET old == RoutinesTerminate(st, name)
    IN  [ table |-> [ n \in DOMAIN old.table \cup { name } |->
                        IF n = name THEN routine ELSE old.table[n] ],
          timers |-> old.timers \cup { TimerOf(routine) } ]

\* start creating the routine and letting it run without adding it to the
\* table.
startRoutines_Untracked(st, reg) ==
    [ st EXCEPT !.timers =
          @ \cup { TimerOf(Routine(reg, "_notifyOfActiveGroups", GroupsInterval)) } ]

\* start(token) after the login: Routines.add('groups', new Routine(...)).
startRoutines(st, reg) ==
    RoutinesAdd(st, "groups", Routine(reg, "_notifyOfActiveGroups", GroupsInterval))

\* clear() ending the "server" routine alone.
clear_ServerOnly(st) == RoutinesTerminate(st, "server")

\* clear(): Routines.terminate('server'), Routines.terminate('groups').
clear(st) == RoutinesTerminate(RoutinesTerminate(st, "server"), "groups")

\* No entry was logged.
NoEntry == [ kind |-> "none", tag |-> "" ]

\* _notifyOfActiveGroups with a catch block that logs nothing.
_notifyOfActiveGroups_Silent(active, g, chan) ==
    IF ~active THEN [ pc |-> "returned", failed |-> FALSE, log |-> NoEntry ]
    ELSE IF g = Null \/ ~chan
    THEN [ pc |-> "returned", failed |-> TRUE, log |-> NoEntry ]
    ELSE [ pc |-> "sending", failed |-> FALSE, log |-> NoEntry ]

\* _notifyOfActiveGroups() to its await of the send, or to its return:
\* active tells whether there are groups, chan whether the channel is
\* found.  Reading this._guild before the ready event, or send of a channel
\* that was not found, throws into the catch block.
_notifyOfActiveGroups(active, g, chan) ==
    IF ~active THEN [ pc |-> "returned", failed |-> FALSE, log |-> NoEntry ]
    ELSE IF g = Null \/ ~chan
    THEN [ pc |-> "returned", failed |-> TRUE, log |-> ErrorEntry("LFG_ALERT") ]
    ELSE [ pc |-> "sending", failed |-> FALSE, log |-> NoEntry ]

\* The catch block of _notifyOfActiveGroups after its awaited send failed.
NotifySendFailed == ErrorEntry("LFG_ALERT")

\* What is logged when an awaited callback fails: _notifyOfActiveGroups
\* catches and logs its own failure; the failure of another component's
\* task, a black box, is caught and logged by the routine.
CallbackFailed(cb) ==
    IF cb = "_notifyOfActiveGroups" THEN NotifySendFailed
    ELSE ErrorEntry("ROUTINE")

\* The invocations of the callbacks awaiting a result: none.
NoCalls == [ r \in 1..MaxRegs |-> [ cb |-> "task", n |-> 0 ] ]

\* The number of invocations awaiting a result, of the routines 1..k.
RECURSIVE Awaiting(_, _)
Awaiting(c, k) == IF k = 0 THEN 0 ELSE c[k].n + Awaiting(c, k - 1)

----------------------------------------------------------------------------
(* The cache of calendar events: EventStore *)

\* The ids (guid) and the titles of the events of the calendar feed.
EventIds == { "g1", "g2" }
Titles == { "t1", "t2" }

\* CalendarEvent: the fields that tell two events apart.
CalendarEvents == { [ guid |-> g, title |-> t ] : g \in EventIds, t \in Titles }

\* new Map(): private _events = new Map().
EmptyCache == [ id \in {} |-> [ guid |-> "", title |-> "" ] ]

\* has(id): this._events.has(id).
has(cache, id) == id \in DOMAIN cache

\* add(id, e): if (!this._events.has(id)) this._events.set(id, e).
add(cache, id, e) ==
    IF ~has(cache, id)
    THEN [ k \in DOMAIN cache \cup { id } |-> IF k = id THEN e ELSE cache[k] ]
    ELSE cache

\* No add call has been made.
NoAdd == [ called |-> FALSE, id |-> "", e |-> [ guid |-> "", title |-> "" ] ]

\* A component calls EventStore.add(id, e).
Add(id, e) ==
    /\ _events' = add(_events, id, e)
    /\ lastAdd' = [ called |-> TRUE, id |-> id, e |-> e ]
    /\ UNCHANGED <<provVars, dispVars, routVars, gone>>

\* The module's EventStore after "new EventStore()".
StoreConstructed ==
    /\ _events = EmptyCache
    /\ lastAdd = NoAdd

----------------------------------------------------------------------------
(* The command registry: addCommand, start *)

\* The command provisions of lib/access, by function name.
Provisions == { "admins", "deprecate" }
NoProvision == "none"

\* A BotAction as the registry stores it: the command body, and the
\* provision wrapped around it.
Handler(action, provision) == [ action |-> action, provision |-> provision ]

\* provision(action): the handler that checks access and then runs action.
Provide(provision, action) == Handler(action, provision)

\* Map.prototype.set(key, value).
MapSet(map, key, value) ==
    [ k \in DOMAIN map \cup { key } |-> IF k = key THEN value ELSE map[k] ]

\* Map.prototype.get(key): the value, or undefined.
Undefined == Handler("undefined", "undefined")
MapGet(map, key) == IF key \in DOMAIN map THEN map[key] ELSE Undefined

EmptyMap == [ k \in {} |-> Undefined ]

\* addCommand keeping the handler a keyword already has.
addCommand_KeepsFirst(bot, cmd, desc, action, provision) ==
    IF cmd \in DOMAIN bot.commands THEN bot
    ELSE [ commands |->
               MapSet(bot.commands, cmd,
                      IF provision # NoProvision THEN Provide(provision, action)
                      ELSE Handler(action, NoProvision)),
           descriptions |-> MapSet(bot.descriptions, cmd, << desc >>) ]

\* addCommand storing the command body without its provision.
addCommand_Unwrapped(bot, cmd, desc, action, provision) ==
    [ commands |-> MapSet(bot.commands, cmd, Handler(action, NoProvision)),
      descriptions |-> MapSet(bot.descriptions, cmd, << desc >>) ]

\* addCommand(cmd, desc, action, provision?) on the pair of maps.
addCommand(bot, cmd, desc, action, provision) ==
    [ commands |->
          MapSet(bot.commands, cmd,
                 IF provision # NoProvision THEN Provide(provision, action)
                 ELSE Handler(action, NoProvision)),
      descriptions |->
          MapSet(bot.descriptions, cmd,
                 IF provision # NoProvision
                 THEN << desc, " _**(", provision, ")**_" >>
                 ELSE << desc >>) ]

\* help(this._descriptions): the help command over the description table.
HelpHandler == Handler("help", NoProvision)

\* start setting the two help entries only after the login has settled.
start_HelpAfterLogin(bot) == bot

\* start(token) up to its await of the login: the two help entries.
start(bot) ==
    [ bot EXCEPT !.commands =
          MapSet(MapSet(bot.commands, Str_question, HelpHandler),
                 Str_help, HelpHandler) ]

\* The startup script registering shutdown without the admins provision.
Main_ShutdownOpen(bot) ==
    LET b1 == addCommand(bot, Str_config, "config: re-configure", "config", "admins")
        b2 == addCommand(b1, Str_join_group, "join_group: join", "joinGroup", NoProvision)
        b3 == addCommand(b2, Str_leave_group, "leave_group: leave", "leaveGroup", NoProvision)
        b4 == addCommand(b3, Str_polls, "polls: active polls", "polls", "deprecate")
        b5 == addCommand(b4, Str_primary, "primary: current mission", "primary", NoProvision)
        b6 == addCommand(b5, Str_ratio, "ratio: player ratio", "ratio", NoProvision)
        b7 == addCommand(b6, Str_shutdown, "shutdown: turn off", "shutdown", NoProvision)
    IN  start(b7)

\* The startup script: the seven registrations, then start.
Main(bot) ==
    LET b1 == addCommand(bot, Str_config, "config: re-configure", "config", "admins")
        b2 == addCommand(b1, Str_join_group, "join_group: join", "joinGroup", NoProvision)
        b3 == addCommand(b2, Str_leave_group, "leave_group: leave", "leaveGroup", NoProvision)
        b4 == addCommand(b3, Str_polls, "polls: active polls", "polls", "deprecate")
        b5 == addCommand(b4, Str_primary, "primary: current mission", "primary", NoProvision)
        b6 == addCommand(b5, Str_ratio, "ratio: player ratio", "ratio", NoProvision)
        b7 == addCommand(b6, Str_shutdown, "shutdown: turn off", "shutdown", "admins")
    IN  start(b7)

NotExited == -1

\* The keywords, command bodies and help texts the registration calls of the
\* registry specification draw from.
Keywords == { Str_shutdown, Str_ratio, Str_help }
Actions == { "shutdown", "ratio" }
Descs == { "text" }

\* One addCommand call of a startup script.
AddCommand(cmd, desc, action, provision) ==
    /\ phase = "setup"
    /\ adds < MaxAdds
    /\ LET b == addCommand([ commands |-> commands, descriptions |-> descriptions ],
                           cmd, desc, action, provision)
       IN  /\ commands' = b.commands
           /\ descriptions' = b.descriptions
    /\ registered' = [ k \in DOMAIN registered \cup { cmd } |->
                          IF k = cmd THEN [ action |-> action, provision |-> provision ]
                          ELSE registered[k] ]
    /\ adds' = adds + 1
    /\ UNCHANGED <<storeVars, gone, provVars, routVars, phase, exitStatus, REQUEST_COUNT, msgs>>

\* start(token), to its await of the login.
Start ==
    /\ phase = "setup"
    /\ LET b == start([ commands |-> commands, descriptions |-> descriptions ])
       IN  /\ commands' = b.commands
           /\ descriptions' = b.descriptions
    /\ registered' = [ k \in DOMAIN registered \cup { Str_question, Str_help } |->
                          IF k \in { Str_question, Str_help }
                          THEN [ action |-> "help", provision |-> NoProvision ]
                          ELSE registered[k] ]
    /\ phase' = "login"
    /\ UNCHANGED <<storeVars, gone, provVars, routVars, adds, exitStatus, REQUEST_COUNT, msgs>>

\* this._client.login(token) settles: start goes on and adds the "groups"
\* routine, or logs and exits.
LoginSettles(ok) ==
    /\ phase = "login"
    /\ exitStatus = NotExited
    /\ IF ok
       THEN /\ phase' = "running"
            /\ LET st == startRoutines([ table |-> routines, timers |-> timers ],
                                       Len(regs) + 1)
               IN  routines' = st.table /\ timers' = st.timers
            /\ regs' = Append(regs,
                  [ name |-> "groups", cb |-> "_notifyOfActiveGroups",
                    interval |-> GroupsInterval, stopped |-> FALSE, since |-> 0,
                    ran |-> FALSE, due |-> FALSE ])
            /\ UNCHANGED <<exitStatus, calls, slog>>
       ELSE /\ exitStatus' = 1
            /\ UNCHANGED <<phase, routVars>>
    /\ UNCHANGED <<storeVars, gone, provVars, regVars, REQUEST_COUNT, msgs>>

----------------------------------------------------------------------------
(* The dispatcher: _onMessage, _logCommandUse *)

\* The message events that can be in flight at once.
Slots == { 1, 2 }

Str_hi == << "h", "i" >>
Str_zz == << "z", "z" >>
Str_shut == << "s", "h", "u", "t" >>
Str_ratios == Str_ratio \o << "s" >>
Str_Ratio == << "R", "a", "t", "i", "o" >>
Bang == << "!" >>
Space == << " " >>

\* The texts of the messages the platform delivers.
Contents ==
    { << >>,
      Str_hi,
      Str_hi \o Space \o Bang \o Str_shutdown,
      Space \o Bang \o Str_shutdown,
      Bang,
      Bang \o Str_zz,
      Bang \o Str_shut,
      Bang \o Str_shutdown,
      Bang \o Str_shutdown \o Space \o Bang \o Str_ratio,
      Bang \o Str_ratio \o Space \o Bang \o Str_shutdown,
      Bang \o Str_polls,
      Bang \o Str_help,
      Bang \o Str_ratios,
      Bang \o Str_Ratio }

\* A message event: whether a bot wrote it, whether its author holds an
\* administrator role, whether it came from a guild channel, and its text.
MsgInputs ==
    { [ bot |-> b, admin |-> a, guild |-> g, content |-> c ] :
        b \in BOOLEAN, a \in BOOLEAN, g \in BOOLEAN, c \in Contents }

\* The string the shutdown command returns when it has shut the bot down.
ShutdownOutput == "shutdown successful"

\* What a command body, a black box, may return.
Outputs == { ShutdownOutput, "OUTPUT" }

IdleMsg ==
    [ pc |-> "idle", bot |-> FALSE, admin |-> FALSE, guild |-> FALSE,
      content |-> << >>, deleted |-> FALSE, ran |-> 0, invoked |-> 0,
      handler |-> "", args |-> << >>,
      dm |-> FALSE, output |-> "", fault |-> FALSE, log |-> << >> ]

\* const [cmd, ...args] = msg.content.split(' ')
CmdOf(content) == Split(content)[1]
ArgsOf(content) == Tail(Split(content))

\* The test without the check of msg.author.bot.
IsCommand_BotsToo(m) == StartsWith(CmdOf(m.content), "!")

\* cmd.startsWith('!') on a message no bot wrote.
IsCommand(m) == ~m.bot /\ StartsWith(CmdOf(m.content), "!")

\* A lookup that takes the longest registered keyword the token begins with.
Lookup_PrefixMatch(cmds, content) ==
    LET key == Slice1(CmdOf(content))
        hits == { k \in DOMAIN cmds :
                    Len(k) <= Len(key) /\ SubSeq(key, 1, Len(k)) = k }
    IN  IF hits = {} THEN Undefined
        ELSE cmds[CHOOSE k \in hits : \A j \in hits : Len(j) <= Len(k)]

\* this._commands.get(cmdKey)
Lookup(cmds, content) == MapGet(cmds, Slice1(CmdOf(content)))

\* The check of a command provision: admins lets the holders of an
\* administrator role through, deprecate nobody.
AccessGranted(provision, m) ==
    CASE provision = "admins" -> m.admin
      [] provision = "deprecate" -> FALSE
      [] OTHER -> TRUE

\* What a provision returns when it refuses.
RejectionOutput(provision) ==
    IF provision = "admins" THEN "ADMIN_ONLY" ELSE "DEPRECATED"

MsgLog(m, entry) == [m EXCEPT !.log = Append(@, entry)]

\* fn(msg.guild || this._guild, msg, args): the stored handler is called
\* with the tokens after the first; it runs the command body when its
\* provision, if any, grants access.
CallHandler(m, fn) ==
    [m EXCEPT !.pc = "running", !.ran = @ + 1,
              !.handler = fn.action, !.args = ArgsOf(m.content),
              !.invoked = IF AccessGranted(fn.provision, m) THEN @ + 1 ELSE @]

\* _onMessage calling the handler first, without deleting the message.
_onMessage_HandlerFirst(m, cmds) ==
    IF ~IsCommand(m) THEN [m EXCEPT !.pc = "done"]
    ELSE LET fn == Lookup(cmds, m.content)
         IN  IF fn # Undefined THEN CallHandler(m, fn)
             ELSE [m EXCEPT !.pc = "nf_deleting"]

\* _onMessage(msg) from its entry to its first await, or to its return.
_onMessage(m, cmds) ==
    IF ~IsCommand(m) THEN [m EXCEPT !.pc = "done"]
    ELSE LET fn == Lookup(cmds, m.content)
         IN  IF fn # Undefined
             THEN IF m.guild THEN [m EXCEPT !.pc = "deleting"]
                  ELSE CallHandler(m, fn)
             ELSE [m EXCEPT !.pc = "nf_deleting"]

\* _logMessageDelete without its test of the text.
_logMessageDelete_LogsCommands(content, outcome) ==
    CASE outcome = "sent" -> << [ kind |-> "audit", tag |-> "MESSAGE_DELETED" ] >>
      [] outcome = "throws" -> << ErrorEntry("MESSAGE_DELETE_LOG_FAILED") >>
      [] OTHER -> << [ kind |-> "unhandled", tag |-> "MESSAGE_DELETED" ] >>

\* _logMessageDelete(message), the handler of the client's messageDelete
\* event: the entries it logs.  It returns at once for a text that starts
\* with "!"; the send is not awaited, so only a synchronous throw reaches
\* the catch.
_logMessageDelete(content, outcome) ==
    IF StartsWith(content, "!") THEN << >>
    ELSE CASE outcome = "sent" -> << [ kind |-> "audit", tag |-> "MESSAGE_DELETED" ] >>
           [] outcome = "throws" -> << ErrorEntry("MESSAGE_DELETE_LOG_FAILED") >>
           [] OTHER -> << [ kind |-> "unhandled", tag |-> "MESSAGE_DELETED" ] >>

\* No user has deleted a message.
NoneGone == [ reported |-> FALSE, content |-> << >>, log |-> << >> ]

\* The test on the output alone.
ShouldExit_AnyCommand(cmd, output) == output = ShutdownOutput

\* The test that ends the process after a command ran.
ShouldExit(cmd, output) == cmd = Bang \o Str_shutdown /\ output = ShutdownOutput

\* _logCommandUse(msg, output): the send is not awaited, so only a
\* synchronous throw reaches the catch.
_logCommandUse(m, outcome) ==
    CASE outcome = "sent" -> MsgLog(m, [ kind |-> "audit", tag |-> "COMMAND_USE" ])
      [] outcome = "throws" ->
            [ MsgLog(m, ErrorEntry("COMMAND_USE_LOG_FAILED")) EXCEPT !.fault = TRUE ]
      [] OTHER ->
            [ MsgLog(m, [ kind |-> "unhandled", tag |-> "COMMAND_USE" ])
              EXCEPT !.fault = TRUE ]

\* The try block after "await fn(...)" returned output.
AfterHandler(m, output, audit) ==
    [ MsgLog(_logCommandUse([m EXCEPT !.output = output], audit),
             [ kind |-> "cmd", tag |-> "CMD" ])
      EXCEPT !.pc = "done" ]

\* The catch block of the found branch.
CommandFailed(m) ==
    [ MsgLog(m, ErrorEntry("COMMAND")) EXCEPT !.pc = "done", !.fault = TRUE ]

Running == phase = "running" /\ exitStatus = NotExited

\* The startup script runs: the registrations and start, to the login.
Startup ==
    /\ phase = "setup"
    /\ adds = 0
    /\ LET b == Main([ commands |-> commands, descriptions |-> descriptions ])
       IN  /\ commands' = b.commands
           /\ descriptions' = b.descriptions
    /\ registered' = commands'
    /\ phase' = "login"
    /\ UNCHANGED <<storeVars, gone, provVars, routVars, adds, exitStatus, REQUEST_COUNT, msgs>>

\* _onMessage counting a request only once its keyword has been found.
OnMessage_CountsFound(s, input) ==
    /\ Running
    /\ msgs[s].pc = "idle"
    /\ \A t \in Slots : t < s => msgs[t].pc # "idle"
    /\ REQUEST_COUNT < MaxRequests
    /\ LET m == [ IdleMsg EXCEPT !.bot = input.bot, !.admin = input.admin,
                                 !.guild = input.guild, !.content = input.content ]
       IN  /\ msgs' = [msgs EXCEPT ![s] = _onMessage(m, commands)]
           /\ REQUEST_COUNT' =
                  IF IsCommand(m) /\ Lookup(commands, m.content) # Undefined
                  THEN REQUEST_COUNT + 1
                  ELSE REQUEST_COUNT
    /\ UNCHANGED <<storeVars, gone, provVars, routVars, regVars, phase, exitStatus>>

\* The client emits a message event: _onMessage runs to its first await.
OnMessage(s, input) ==
    /\ Running
    /\ msgs[s].pc = "idle"
    /\ \A t \in Slots : t < s => msgs[t].pc # "idle"
    /\ REQUEST_COUNT < MaxRequests
    /\ LET m == [ IdleMsg EXCEPT !.bot = input.bot, !.admin = input.admin,
                                 !.guild = input.guild, !.content = input.content ]
       IN  /\ msgs' = [msgs EXCEPT ![s] = _onMessage(m, commands)]
           /\ REQUEST_COUNT' = IF IsCommand(m) THEN REQUEST_COUNT + 1
                               ELSE REQUEST_COUNT
    /\ UNCHANGED <<storeVars, gone, provVars, routVars, regVars, phase, exitStatus>>

\* msg.delete() of the found branch settles; for a message that was
\* deleted the client emits messageDelete, which _logMessageDelete handles.
DeleteSettles(s, ok) ==
    /\ Running
    /\ msgs[s].pc = "deleting"
    /\ \E outcome \in AuditOutcomes :
          msgs' = [msgs EXCEPT ![s] =
              IF ok THEN CallHandler(
                             [@ EXCEPT !.deleted = TRUE,
                                       !.log = @ \o _logMessageDelete(msgs[s].content, outcome)],
                             Lookup(commands, @.content))
              ELSE CommandFailed(@)]
    /\ UNCHANGED <<storeVars, gone, provVars, routVars, regVars, phase, exitStatus, REQUEST_COUNT>>

\* The awaited handler returns a string: the provision's refusal, or what
\* the command body returns.
HandlerReturns(s, output, audit) ==
    /\ Running
    /\ msgs[s].pc = "running"
    /\ LET fn == Lookup(commands, msgs[s].content)
       IN  IF AccessGranted(fn.provision, msgs[s]) THEN output \in Outputs
           ELSE output = RejectionOutput(fn.provision)
    /\ msgs' = [msgs EXCEPT ![s] = AfterHandler(@, output, audit)]
    /\ exitStatus' = IF ShouldExit(CmdOf(msgs[s].content), output) THEN 0
                     ELSE exitStatus
    /\ UNCHANGED <<storeVars, gone, provVars, routVars, regVars, phase, REQUEST_COUNT>>

\* The awaited handler throws.
HandlerThrows(s) ==
    /\ Running
    /\ msgs[s].pc = "running"
    /\ msgs' = [msgs EXCEPT ![s] = CommandFailed(@)]
    /\ UNCHANGED <<storeVars, gone, provVars, routVars, regVars, phase, exitStatus, REQUEST_COUNT>>

\* msg.delete() of the not-found branch settles; for a message that was
\* deleted the client emits messageDelete, which _logMessageDelete handles.
UnknownDeleteSettles(s, ok) ==
    /\ Running
    /\ msgs[s].pc = "nf_deleting"
    /\ \E outcome \in AuditOutcomes :
          msgs' = [msgs EXCEPT ![s] =
              IF ok THEN [@ EXCEPT !.deleted = TRUE, !.pc = "nf_sending",
                                   !.log = @ \o _logMessageDelete(msgs[s].content, outcome)]
              ELSE [ MsgLog(@, ErrorEntry("MESSAGE_DELETE"))
                     EXCEPT !.pc = "done", !.fault = TRUE ]]
    /\ UNCHANGED <<storeVars, gone, provVars, routVars, regVars, phase, exitStatus, REQUEST_COUNT>>

\* msg.author.send(...) of the not-found branch settles.
UnknownSendSettles(s, ok) ==
    /\ Running
    /\ msgs[s].pc = "nf_sending"
    /\ msgs' = [msgs EXCEPT ![s] =
          IF ok THEN [ MsgLog(@, ErrorEntry("NO_COMMAND"))
                       EXCEPT !.dm = TRUE, !.pc = "done" ]
          ELSE [ MsgLog(@, ErrorEntry("MESSAGE_DELETE"))
                 EXCEPT !.pc = "done", !.fault = TRUE ]]
    /\ UNCHANGED <<storeVars, gone, provVars, routVars, regVars, phase, exitStatus, REQUEST_COUNT>>

\* The promise of a finished _onMessage call is dropped by the event loop.
MessageReturned(s) ==
    /\ Running
    /\ msgs[s].pc = "done"
    /\ msgs' = [msgs EXCEPT ![s] = IdleMsg]
    /\ UNCHANGED <<storeVars, gone, provVars, routVars, regVars, phase, exitStatus, REQUEST_COUNT>>

\* A user deletes a message: the client emits messageDelete, and
\* _logMessageDelete handles it.
MessageDeleted(content, outcome) ==
    /\ Running
    /\ gone' = [ reported |-> TRUE, content |-> content,
                 log |-> _logMessageDelete(content, outcome) ]
    /\ UNCHANGED <<storeVars, provVars, routVars, regVars, phase, exitStatus,
                   REQUEST_COUNT, msgs>>

\* The routine is the last one created under its name, and that name has
\* not been terminated since.
Live(h, r) ==
    /\ r \in DOMAIN h
    /\ ~h[r].stopped
    /\ \A q \in DOMAIN h : q > r => h[q].name # h[r].name

\* A component adds a routine of its own: Routines.add(name, new Routine(...)).
RoutineAdded(name, interval) ==
    /\ Running
    /\ Len(regs) < MaxRegs
    /\ LET st == RoutinesAdd([ table |-> routines, timers |-> timers ], name,
                             Routine(Len(regs) + 1, "task", interval))
       IN  routines' = st.table /\ timers' = st.timers
    /\ regs' = Append(regs,
          [ name |-> name, cb |-> "task", interval |-> interval,
            stopped |-> FALSE, since |-> 0, ran |-> FALSE, due |-> FALSE ])
    /\ slog' = NoEntry
    /\ UNCHANGED <<storeVars, gone, provVars, dispVars, calls>>

\* The bot's clear() is called.
Clear ==
    /\ Running
    /\ LET st == clear([ table |-> routines, timers |-> timers ])
       IN  routines' = st.table /\ timers' = st.timers
    /\ regs' = [ r \in DOMAIN regs |->
                   IF regs[r].name \in { "server", "groups" }
                   THEN [ regs[r] EXCEPT !.stopped = TRUE ]
                   ELSE regs[r] ]
    /\ slog' = NoEntry
    /\ UNCHANGED <<storeVars, gone, provVars, dispVars, calls>>

\* An hour passes with no timer due.
Tick ==
    /\ Running
    /\ \A t \in timers : t.left > 0
    /\ timers' = { [ t EXCEPT !.left = @ - 1 ] : t \in timers }
    /\ regs' = [ r \in DOMAIN regs |->
                   IF Live(regs, r) /\ regs[r].since <= regs[r].interval
                   THEN [ regs[r] EXCEPT !.since = @ + 1 ]
                   ELSE regs[r] ]
    /\ slog' = NoEntry
    /\ UNCHANGED <<storeVars, gone, provVars, dispVars, routines, calls>>

\* The timer of a routine is due: the callback is called and runs to its
\* first await, or to its return; the timer starts its next interval.
TimerFires(reg, active, chan) ==
    /\ Running
    /\ Awaiting(calls, MaxRegs) < MaxInflight
    /\ \E t \in timers :
          /\ t.reg = reg
          /\ t.left = 0
          /\ LET run == IF t.cb = "_notifyOfActiveGroups"
                        THEN _notifyOfActiveGroups(active, guild, chan)
                        ELSE [ pc |-> "awaiting", failed |-> FALSE, log |-> NoEntry ]
             IN  /\ timers' = (timers \ { t }) \cup { [ t EXCEPT !.left = t.interval ] }
                 /\ calls' = IF run.pc = "returned" THEN calls
                             ELSE [ calls EXCEPT ![reg] = [ cb |-> t.cb, n |-> @.n + 1 ] ]
                 /\ slog' = run.log
                 /\ regs' = [ regs EXCEPT ![reg].since = 0, ![reg].ran = TRUE,
                                          ![reg].due = run.failed ]
    /\ UNCHANGED <<storeVars, gone, provVars, dispVars, routines>>

\* An awaited callback settles: the send of _notifyOfActiveGroups, or the
\* task of another component, succeeded or failed.
CallbackSettles(reg, ok) ==
    /\ Running
    /\ calls[reg].n > 0
    /\ calls' = [ calls EXCEPT ![reg].n = @ - 1 ]
    /\ slog' = IF ok THEN NoEntry ELSE CallbackFailed(calls[reg].cb)
    /\ regs' = IF ok THEN regs ELSE [ regs EXCEPT ![reg].due = TRUE ]
    /\ UNCHANGED <<storeVars, gone, provVars, dispVars, routines, timers>>

\* The dispatcher's part of the state after "new Bot()".
Constructed ==
    /\ commands = EmptyMap
    /\ descriptions = [ k \in {} |-> << >> ]
    /\ registered = EmptyMap
    /\ adds = 0
    /\ phase = "setup"
    /\ exitStatus = NotExited
    /\ REQUEST_COUNT = 0
    /\ msgs = [ s \in Slots |-> IdleMsg ]
    /\ gone = NoneGone
    /\ routines = NoRoutines.table
    /\ timers = {}
    /\ calls = NoCalls
    /\ slog = NoEntry
    /\ regs = << >>

Init ==
    /\ guild = Null
    /\ roles \in [MemberIds -> SUBSET RoleIds]
    /\ call = IdleCall
    /\ rival = IdleCall
    /\ reply = NoReply
    /\ Constructed
    /\ StoreConstructed

Next ==
    \/ ClientReady
    \/ \E q \in BoundedRequests, f \in Faults : ProvisionCall(q, f)
    \/ \E f \in Faults : ProvisionAgain(f)
    \/ ProvisionReplied
    \/ \E ok \in BOOLEAN, f \in Faults : AddRolesSettles(ok, f)
    \/ \E ok \in BOOLEAN, f \in Faults : RemoveRolesSettles(ok, f)
    \/ \E id \in UserIds \cup { "" } : GetUserRoles(id)

Spec == Init /\ [][Next]_vars

\* The specification of two callers that do not serialize their calls: a
\* second call starts while the first awaits the platform.
RaceNext ==
    \/ ClientReady
    \/ \E q \in RaceRequests : ProvisionCall(q, Delivered)
    \/ ProvisionReplied
    \/ \E ok \in BOOLEAN : AddRolesSettles(ok, Delivered)
    \/ \E ok \in BOOLEAN : RemoveRolesSettles(ok, Delivered)
    \/ \E q \in RaceRequests : RivalCall(q, Delivered)
    \/ RivalReplied
    \/ \E ok \in BOOLEAN : RivalAddRolesSettles(ok, Delivered)
    \/ \E ok \in BOOLEAN : RivalRemoveRolesSettles(ok, Delivered)

\* Every member holds role B when the first call arrives.
RaceInit ==
    /\ guild = Null
    /\ roles = [ m \in MemberIds |-> { "r2" } ]
    /\ call = IdleCall
    /\ rival = IdleCall
    /\ reply = NoReply
    /\ Constructed
    /\ StoreConstructed

RaceSpec == RaceInit /\ [][RaceNext]_vars

\* The registry specification: any startup script of at most MaxAdds
\* registrations, then start and the login.
RegistryInit ==
    /\ guild = Null
    /\ roles = [ m \in MemberIds |-> {} ]
    /\ call = IdleCall
    /\ rival = IdleCall
    /\ reply = NoReply
    /\ Constructed
    /\ StoreConstructed

RegistryNext ==
    \/ \E cmd \in Keywords, desc \in Descs, action \in Actions,
          provision \in Provisions \cup { NoProvision } :
            AddCommand(cmd, desc, action, provision)
    \/ Start
    \/ \E ok \in BOOLEAN : LoginSettles(ok)

RegistrySpec == RegistryInit /\ [][RegistryNext]_vars

\* The dispatcher specification: the startup script, the login, and then
\* message events.
DispatchNext ==
    \/ Startup
    \/ \E ok \in BOOLEAN : LoginSettles(ok)
    \/ \E s \in Slots, input \in MsgInputs : OnMessage(s, input)
    \/ \E s \in Slots, ok \in BOOLEAN : DeleteSettles(s, ok)
    \/ \E s \in Slots, output \in Outputs \cup { "ADMIN_ONLY", "DEPRECATED" },
          audit \in AuditOutcomes : HandlerReturns(s, output, audit)
    \/ \E s \in Slots : HandlerThrows(s)
    \/ \E s \in Slots, ok \in BOOLEAN : UnknownDeleteSettles(s, ok)
    \/ \E s \in Slots, ok \in BOOLEAN : UnknownSendSettles(s, ok)
    \/ \E s \in Slots : MessageReturned(s)

DispatchSpec == RegistryInit /\ [][DispatchNext]_vars

\* The messages of members who hold no administrator role.
MemberInputs == { input \in MsgInputs : ~input.admin }

\* The dispatcher specification with no message of an administrator.
MemberNext ==
    \/ Startup
    \/ \E ok \in BOOLEAN : LoginSettles(ok)
    \/ \E s \in Slots, input \in MemberInputs : OnMessage(s, input)
    \/ \E s \in Slots, ok \in BOOLEAN : DeleteSettles(s, ok)
    \/ \E s \in Slots, output \in Outputs \cup { "ADMIN_ONLY", "DEPRECATED" },
          audit \in AuditOutcomes : HandlerReturns(s, output, audit)
    \/ \E s \in Slots : HandlerThrows(s)
    \/ \E s \in Slots, ok \in BOOLEAN : UnknownDeleteSettles(s, ok)
    \/ \E s \in Slots, ok \in BOOLEAN : UnknownSendSettles(s, ok)
    \/ \E s \in Slots : MessageReturned(s)

MemberSpec == RegistryInit /\ [][MemberNext]_vars

\* The command messages of the deletion specification: a registered and an
\* unregistered keyword, from a guild channel or a private one.
DeleteInputs ==
    { input \in MsgInputs :
        /\ ~input.bot
        /\ ~input.admin
        /\ input.content \in { Bang \o Str_ratio \o Space \o Bang \o Str_shutdown,
                                Bang \o Str_zz } }

\* The deletion specification: the dispatcher deletes command messages, and
\* users delete messages of any text.
DeleteNext ==
    \/ Startup
    \/ \E ok \in BOOLEAN : LoginSettles(ok)
    \/ \E s \in Slots, input \in DeleteInputs : OnMessage(s, input)
    \/ \E s \in Slots, ok \in BOOLEAN : DeleteSettles(s, ok)
    \/ \E s \in Slots, output \in Outputs, audit \in AuditOutcomes :
          HandlerReturns(s, output, audit)
    \/ \E s \in Slots : HandlerThrows(s)
    \/ \E s \in Slots, ok \in BOOLEAN : UnknownDeleteSettles(s, ok)
    \/ \E s \in Slots, ok \in BOOLEAN : UnknownSendSettles(s, ok)
    \/ \E s \in Slots : MessageReturned(s)
    \/ \E content \in Contents, outcome \in AuditOutcomes :
          MessageDeleted(content, outcome)

DeleteSpec == RegistryInit /\ [][DeleteNext]_vars

\* The scheduler specification: the startup script and the login, which
\* adds the bot's routine, then other components' routines, clear, the
\* passing of time and the runs of the callbacks.
RoutineNext ==
    \/ Startup
    \/ \E ok \in BOOLEAN : LoginSettles(ok)
    \/ ClientReady
    \/ \E name \in RoutineNames, interval \in Intervals : RoutineAdded(name, interval)
    \/ Clear
    \/ Tick
    \/ \E reg \in 1..MaxRegs, active \in BOOLEAN, chan \in BOOLEAN :
          TimerFires(reg, active, chan)
    \/ \E reg \in 1..MaxRegs, ok \in BOOLEAN : CallbackSettles(reg, ok)

RoutineSpec == RegistryInit /\ [][RoutineNext]_vars

\* The same with the event loop's fairness: time passes, a due timer fires,
\* an awaited platform call settles.
RoutineLiveSpec ==
    /\ RoutineSpec
    /\ WF_vars(Tick)
    /\ WF_vars(\E reg \in 1..MaxRegs, active \in BOOLEAN, chan \in BOOLEAN :
                  TimerFires(reg, active, chan))
    /\ WF_vars(\E reg \in 1..MaxRegs, ok \in BOOLEAN : CallbackSettles(reg, ok))

\* The event cache specification: any sequence of add calls.
StoreNext == \E id \in EventIds, e \in CalendarEvents : Add(id, e)

StoreSpec == RegistryInit /\ [][StoreNext]_vars

----------------------------------------------------------------------------
(* Properties of role provisioning, checked under Spec *)

\* The names of the roles a set of role ids stands for, read off the catalog.
HeldNames(held) ==
    { GuildRoles[i].name : i \in { j \in DOMAIN GuildRoles : GuildRoles[j].id \in held } }

HasEntry(log, kind, tag) == \E i \in DOMAIN log : log[i].kind = kind /\ log[i].tag = tag

PhaseFailureLogged(log) ==
    \/ HasEntry(log, "error", "AUTH_PROVISIONING_FAILURE")
    \/ HasEntry(log, "error", "AUTH_REVOKE_FAILURE")

\* The call assign=[A,B], revoke=[all] for member u1 has returned success.
AssignABRevokeAllDone ==
    /\ call.pc = "done"
    /\ call.id = "u1"
    /\ call.assign = << "A", "B" >>
    /\ call.revoke = << AllSentinel >>
    /\ call.result = TRUE

\* C1, as stated: after provisionUserRoles(u1, assign=[A,B], revoke=[all])
\* has completed successfully, member u1 holds exactly the roles A and B,
\* whatever u1 held before.
C1_FinalRolesAreAB == AssignABRevokeAllDone => HeldNames(roles["u1"]) = { "A", "B" }

\* C1, amended: after provisionUserRoles(u1, assign=[A,B], revoke=[all]) has
\* completed successfully, member u1 holds no role at all, whatever u1 held
\* before: the revocation step runs after the assignment step and strips the
\* roles just assigned too.
C1_FinalRolesAreEmpty == AssignABRevokeAllDone => roles["u1"] = {}

C1_Witness == AssignABRevokeAllDone /\ call.before["u1"] = { "r2" }

\* C2: a call for a user id that matches no guild member returns success,
\* changes no member's roles and logs no failure, whatever its assign and
\* revoke lists are.
C2_NoMemberIsSuccess ==
    (call.pc = "done" /\ guild # Null /\ FindMember(call.id) = Null)
        => /\ call.result = TRUE
           /\ roles = call.before
           /\ ~PhaseFailureLogged(call.log)

\* C3: provisionUserRoles always comes to its return with a boolean: no step
\* leaves the call anywhere but at an await or at its return, the value
\* returned is the success flag, and it is false whenever a phase failed.
C3_AlwaysReturnsBoolean ==
    /\ call.pc \in { "idle", "assign_wait", "revoke_wait", "done" }
    /\ call.pc = "done" =>
          /\ call.result \in BOOLEAN
          /\ PhaseFailureLogged(call.log) => call.result = FALSE
          /\ call.faulted => call.result = FALSE

C3_Witness ==
    /\ call.pc = "done"
    /\ call.result = FALSE
    /\ guild # Null
    /\ FindMember(call.id) # Null
    /\ HasEntry(call.log, "error", "AUTH_REVOKE_FAILURE")
    /\ HasEntry(call.log, "audit", "AUTH_PROVISIONING")

\* Every name of the list is the name of a role in the set held.
OnlyHeld(names, held) == \A i \in DOMAIN names : names[i] \in HeldNames(held)

\* The list names roles, and none of them is held.
OnlyNotHeld(names, held) ==
    /\ names # << AllSentinel >>
    /\ \A i \in DOMAIN names : names[i] \notin HeldNames(held)

\* C4: for an existing member and platform calls that succeed, a call that
\* assigns only roles the member holds and revokes only named roles the
\* member does not hold returns true and leaves the member's roles as they
\* were; and a request sent a second time right after it was served leaves
\* every member's roles as the first time left them.
C4_Idempotent ==
    (call.pc = "done" /\ ~call.faulted /\ FindMember(call.id) # Null) =>
        /\ ( /\ Len(call.assign) + Len(call.revoke) > 0
             /\ OnlyHeld(call.assign, call.before[call.id])
             /\ OnlyNotHeld(call.revoke, call.before[call.id]) )
              => (call.result = TRUE /\ roles = call.before)
        /\ call.repeat => roles = call.before

C4_Witness ==
    /\ call.pc = "done"
    /\ call.repeat
    /\ ~call.faulted
    /\ call.id = "u1"
    /\ call.assign = << "A" >>
    /\ call.revoke = << "B" >>
    /\ roles["u1"] = { "r1" }

\* C10: once this._guild is set, getUserRoles with no id returns one entry per guild member, in the
\* members' order, each with the names of the roles that member holds;
\* getUserRoles(id) for a member returns the one entry of that member; and a
\* getUserRoles call changes no member's roles.
C10_ReplyMatchesRoles ==
    (reply.asked /\ reply.guild # Null) =>
        IF reply.id = ""
        THEN /\ ~reply.threw
             /\ Len(reply.users) = Cardinality(MemberIds)
             /\ \A m \in MemberIds :
                    Cardinality({ i \in DOMAIN reply.users : reply.users[i].id = m }) = 1
             /\ \A i \in DOMAIN reply.users :
                    reply.users[i].roles = HeldNames(roles[reply.users[i].id])
        ELSE reply.id \in MemberIds =>
             /\ ~reply.threw
             /\ Len(reply.users) = 1
             /\ reply.users[1].id = reply.id
             /\ reply.users[1].roles = HeldNames(roles[reply.id])

C10_GetUserRoles ==
    /\ [](C10_ReplyMatchesRoles)
    /\ [][(reply' # reply /\ reply'.asked) => roles' = roles]_vars

C10_Witness ==
    /\ reply.asked
    /\ reply.id = "u2"
    /\ ~reply.threw
    /\ reply.users = << [ id |-> "u2", roles |-> { "A", "B" } ] >>
    /\ roles["u1"] = { "r1" }

\* The ids of the catalog's roles that a list of names names.
NamedRoleIds(names) ==
    { GuildRoles[j].id :
        j \in { k \in DOMAIN GuildRoles :
                  \E i \in DOMAIN names : names[i] = GuildRoles[k].name } }

\* The text "n1, n2, ..." of a list of names, in pieces.
RequestedText(names) ==
    [ i \in 1..(IF Len(names) = 0 THEN 0 ELSE 2 * Len(names) - 1) |->
        IF i % 2 = 1 THEN names[(i + 1) \div 2] ELSE ", " ]

\* The step from the settling of addRoles on: the assignment step ends.
AssignStepEnds == call.pc = "assign_wait" /\ call'.pc # "assign_wait"

\* The step from the settling of removeRoles on: the revocation step ends.
RevokeStepEnds == call.pc = "revoke_wait" /\ call'.pc # "revoke_wait"

\* The entry the step added to the call's log is the audit entry of the
\* given action for the call's member, or records that the log channel
\* did not take that entry.
EmitsAudit(action) ==
    /\ Len(call'.log) = Len(call.log) + 1
    /\ LET e == call'.log[Len(call'.log)]
       IN  CASE e.kind = "audit" -> e.tag = action /\ e.member = call.id
             [] e.kind = "error" -> e.tag = "ROLE_CHANGE_LOG_FAILED"
             [] OTHER -> e.kind = "unhandled" /\ e.tag = action

\* C15: an assignment step for an existing member that the platform lets
\* through skips the requested names that are in no catalog: afterwards the
\* member holds the roles held before and the roles the requested names
\* name, no other member's roles change, the step reports success (also
\* when no name resolves), and the AUTH_PROVISIONING audit entry carries
\* all the names requested, resolved or not.
C15_AssignSkipsUnknown ==
    [][ (AssignStepEnds /\ ~HasEntry(call'.log, "error", "AUTH_PROVISIONING_FAILURE")) =>
          /\ roles'[call.id] = roles[call.id] \cup NamedRoleIds(call.assign)
          /\ \A m \in MemberIds \ { call.id } : roles'[m] = roles[m]
          /\ call'.success
          /\ EmitsAudit("AUTH_PROVISIONING")
          /\ \A i \in DOMAIN call'.log :
                (call'.log[i].kind = "audit" /\ call'.log[i].tag = "AUTH_PROVISIONING")
                    => call'.log[i].result = RequestedText(call.assign) ]_vars

C15_Witness ==
    /\ call.pc = "done"
    /\ call.result = TRUE
    /\ call.id = "u1"
    /\ call.assign = << "X", "A" >>
    /\ call.before["u1"] = { "r2" }
    /\ roles["u1"] = { "r1", "r2" }
    /\ \E i \in DOMAIN call.log :
          /\ call.log[i].kind = "audit"
          /\ call.log[i].result = << "X", ", ", "A" >>

\* C16: a revocation step for an existing member that the platform lets
\* through leaves the member with no role when the revoke list is the
\* sentinel, and otherwise removes exactly the roles the list names that
\* are in the catalog and held, every other role held staying held; no
\* other member's roles change; and in both cases the step sends the
\* AUTH_REVOKE audit entry.
C16_RevokeRemovesNamed ==
    [][ (RevokeStepEnds /\ ~HasEntry(call'.log, "error", "AUTH_REVOKE_FAILURE")) =>
          /\ roles'[call.id] =
                IF call.revoke = << AllSentinel >> THEN {}
                ELSE roles[call.id] \ NamedRoleIds(call.revoke)
          /\ \A m \in MemberIds \ { call.id } : roles'[m] = roles[m]
          /\ call'.pc = "done"
          /\ EmitsAudit("AUTH_REVOKE") ]_vars

C16_Witness ==
    /\ call.pc = "done"
    /\ call.id = "u2"
    /\ call.assign = << >>
    /\ call.revoke = << "A", "X" >>
    /\ call.before["u2"] = { "r1", "r2" }
    /\ roles["u2"] = { "r2" }
    /\ HasEntry(call.log, "audit", "AUTH_REVOKE")

\* C17: the boolean provisionUserRoles returns is the conjunction of the
\* results of its two phases: it is true exactly when neither the
\* assignment nor the revocation failed, and a phase whose list is empty
\* does not run and counts as a success.
C17_ResultIsConjunction ==
    call.pc = "done" =>
        LET assigned == ~HasEntry(call.log, "error", "AUTH_PROVISIONING_FAILURE")
            revoked == ~HasEntry(call.log, "error", "AUTH_REVOKE_FAILURE")
        IN  /\ call.result = (assigned /\ revoked)
            /\ Len(call.assign) = 0 =>
                  (assigned /\ \A i \in DOMAIN call.log : call.log[i].tag # "AUTH_PROVISIONING")
            /\ Len(call.revoke) = 0 =>
                  (revoked /\ \A i \in DOMAIN call.log : call.log[i].tag # "AUTH_REVOKE")
            /\ (Len(call.assign) = 0 /\ Len(call.revoke) = 0) =>
                  (call.result = TRUE /\ call.log = << >>)

C17_Witness ==
    /\ call.pc = "done"
    /\ call.result = FALSE
    /\ guild # Null
    /\ call.id = "u1"
    /\ call.assign = << "A" >>
    /\ call.revoke = << "B" >>
    /\ HasEntry(call.log, "error", "AUTH_PROVISIONING_FAILURE")
    /\ ~HasEntry(call.log, "error", "AUTH_REVOKE_FAILURE")

\* C24: in a call with a non-empty assign list and a non-empty revoke list
\* whose assignment step reports failure, the revocation step is not
\* attempted: the call does not come to await removeRoles, no member loses
\* a role, no AUTH_REVOKE entry (nor a failure of the revocation) is
\* logged, and the call returns false.
C24_FailedAssignSkipsRevoke ==
    ( /\ call.pc # "idle"
      /\ Len(call.assign) > 0
      /\ Len(call.revoke) > 0
      /\ HasEntry(call.log, "error", "AUTH_PROVISIONING_FAILURE") ) =>
        /\ call.pc = "done"
        /\ call.result = FALSE
        /\ \A i \in DOMAIN call.log :
              call.log[i].tag \notin { "AUTH_REVOKE", "AUTH_REVOKE_FAILURE" }
        /\ \A m \in MemberIds : call.before[m] \subseteq roles[m]

C24_Witness ==
    /\ call.pc = "done"
    /\ guild # Null
    /\ call.id = "u2"
    /\ call.assign = << "A" >>
    /\ call.revoke = << "B" >>
    /\ call.before["u2"] = { "r2" }
    /\ roles["u2"] = { "r2" }
    /\ call.result = FALSE
    /\ call.log = << ErrorEntry("AUTH_PROVISIONING_FAILURE") >>

----------------------------------------------------------------------------
(* Properties of concurrent provisioning calls, checked under RaceSpec *)

\* The awaited platform call of c settles in this step, d being c after it.
Settles(c, d) == c.pc \in { "assign_wait", "revoke_wait" } /\ d # c

\* The role set c sends to the platform when it comes to await addRoles or
\* removeRoles (d is c after the step, held the role set of the member of
\* the call when the step is done) is made of that member's roles and of
\* the names of the request alone.
SendsOwnRoles(c, d, held) ==
    /\ (d.pc = "assign_wait" /\ c.pc # "assign_wait") =>
          d.pending = held \cup NamedRoleIds(d.assign)
    /\ (d.pc = "revoke_wait" /\ c.pc # "revoke_wait") =>
          d.pending = IF d.revoke = << AllSentinel >> THEN {}
                      ELSE held \ NamedRoleIds(d.revoke)

\* C25: however two provisioning calls interleave, a call for user id u
\* changes the role set of no member but u: a member's role set changes
\* only in a step in which the platform call of a call for that member
\* settles, the new role set is the one that call sent, and what a call
\* sends is made of its own member's roles and its own request; so each
\* member's role set depends on the calls made for that member alone.
C25_CallsTouchOwnMemberOnly ==
    /\ [][ \A m \in MemberIds :
              roles'[m] # roles[m] =>
                  \/ Settles(call, call') /\ call.id = m /\ roles'[m] = call.pending
                  \/ Settles(rival, rival') /\ rival.id = m /\ roles'[m] = rival.pending ]_vars
    /\ [][ /\ call'.id \in MemberIds => SendsOwnRoles(call, call', roles'[call'.id])
           /\ rival'.id \in MemberIds => SendsOwnRoles(rival, rival', roles'[rival'.id]) ]_vars

C25_Witness ==
    /\ call.pc = "done"
    /\ rival.pc = "done"
    /\ call.id = "u1"
    /\ call.assign = << "A" >>
    /\ call.revoke = << >>
    /\ rival.id = "u2"
    /\ rival.assign = << >>
    /\ rival.revoke = << AllSentinel >>
    /\ call.before = [ m \in MemberIds |-> { "r2" } ]
    /\ rival.before = call.before
    /\ roles = [ m \in MemberIds |-> IF m = "u1" THEN { "r1", "r2" } ELSE {} ]

----------------------------------------------------------------------------
(* Properties of the registry, checked under RegistrySpec *)

\* The keywords looked up: those a script registers, and two it never does.
LookedUp == Keywords \cup { Str_question, Str_polls, << >> }

\* C9: once start has run, looking a keyword up gives the handler that was
\* registered under it last, be it by addCommand or by start, and gives
\* nothing for a keyword that was never registered.
C9_LookupIsLastRegistered ==
    phase # "setup" =>
        \A k \in LookedUp :
            IF k \in DOMAIN registered
            THEN /\ k \in DOMAIN commands
                 /\ commands[k].action = registered[k].action
                 /\ commands[k].provision = registered[k].provision
            ELSE MapGet(commands, k) = Undefined

C9_Witness ==
    /\ phase # "setup"
    /\ adds = 2
    /\ DOMAIN registered = { Str_shutdown, Str_help, Str_question }
    /\ registered[Str_shutdown] = [ action |-> "ratio", provision |-> "admins" ]
    /\ Str_polls \notin DOMAIN commands

----------------------------------------------------------------------------
(* Properties of the dispatcher, checked under DispatchSpec *)

\* The message's handler has returned a string.
Returned(m) == m.pc = "done" /\ m.output # ""

FirstToken(content) ==
    LET spaces == { i \in 1..Len(content) : content[i] = " " }
    IN  IF spaces = {} THEN content ELSE SubSeq(content, 1, Min(spaces) - 1)

\* C5: the process exits with status 0 when a message whose first token is
\* "!shutdown" had its handler return "shutdown successful", and in no other
\* case: not for another output, a handler that failed, or another command.
C5_ExitIffShutdown ==
    /\ \A s \in Slots :
          ( /\ Returned(msgs[s])
            /\ FirstToken(msgs[s].content) = Bang \o Str_shutdown
            /\ msgs[s].output = "shutdown successful" ) => exitStatus = 0
    /\ exitStatus = 0 =>
          \E s \in Slots :
              /\ Returned(msgs[s])
              /\ FirstToken(msgs[s].content) = Bang \o Str_shutdown
              /\ msgs[s].output = "shutdown successful"
              /\ ~HasEntry(msgs[s].log, "error", "COMMAND")

C5_Witness ==
    /\ exitStatus = 0
    /\ \E s \in Slots : Returned(msgs[s]) /\ msgs[s].output = "OUTPUT"

\* The message is one the dispatcher is to ignore: a bot wrote it, or its
\* text does not begin with "!".
Ignorable(m) == m.bot \/ ~(Len(m.content) > 0 /\ m.content[1] = "!")

\* C6: taking in a message that a bot wrote, or whose text does not begin
\* with "!", ends the handling at once: no handler is called, the message is
\* not deleted, nothing is sent or logged, and the request counter and the
\* registry stay as they are.
C6_IgnoredHasNoEffect ==
    [][ \A s \in Slots :
          (msgs[s].pc = "idle" /\ msgs'[s].pc # "idle" /\ Ignorable(msgs'[s])) =>
              /\ msgs'[s].pc = "done"
              /\ msgs'[s].ran = 0
              /\ msgs'[s].invoked = 0
              /\ ~msgs'[s].deleted
              /\ ~msgs'[s].dm
              /\ msgs'[s].log = << >>
              /\ REQUEST_COUNT' = REQUEST_COUNT
              /\ commands' = commands
              /\ descriptions' = descriptions ]_vars

C6_Witness ==
    \E s \in Slots :
        /\ msgs[s].pc = "done"
        /\ msgs[s].bot
        /\ msgs[s].content = Bang \o Str_shutdown
        /\ REQUEST_COUNT = 1

\* C7: whatever fails while a message is handled (the handler, the deletion
\* of the message, the direct message, the send to the log channel), an
\* error-level entry is logged for it and no failure is left unhandled.
C7_FailuresAreLogged ==
    \A s \in Slots :
        msgs[s].pc = "done" =>
            /\ msgs[s].fault => \E i \in DOMAIN msgs[s].log : msgs[s].log[i].kind = "error"
            /\ \A i \in DOMAIN msgs[s].log : msgs[s].log[i].kind # "unhandled"

\* The provision the startup script registers a keyword with.
MainProvision(key) ==
    CASE key \in { Str_config, Str_shutdown } -> "admins"
      [] key = Str_polls -> "deprecate"
      [] OTHER -> NoProvision

\* C8: for a command registered with a provision, a message of a member the
\* provision does not let through gets the refusal as its output and the
\* command body is never run; a message of a member it lets through runs
\* the command body once for each call of the handler, and at most once.
C8_ProvisionGuardsHandler ==
    \A s \in Slots :
        LET m == msgs[s]
            provision == MainProvision(Slice1(FirstToken(m.content)))
            allowed == provision = "admins" /\ m.admin
        IN  (m.pc # "idle" /\ ~Ignorable(m) /\ provision # NoProvision) =>
                /\ m.ran <= 1
                /\ ~allowed => /\ m.invoked = 0
                               /\ Returned(m) => m.output \in { "ADMIN_ONLY", "DEPRECATED" }
                /\ allowed => m.invoked = m.ran
                /\ (allowed /\ Returned(m)) => m.invoked = 1

C8_Witness ==
    /\ \E s \in Slots :
          /\ Returned(msgs[s])
          /\ msgs[s].content = Bang \o Str_shutdown
          /\ ~msgs[s].admin
          /\ msgs[s].output = "ADMIN_ONLY"
    /\ \E s \in Slots :
          /\ msgs[s].pc = "running"
          /\ msgs[s].content = Bang \o Str_shutdown
          /\ msgs[s].admin
          /\ msgs[s].invoked = 1

\* The message is a command message whose keyword the startup script and
\* start register.
KnownCommand(m) ==
    ~Ignorable(m) /\ Slice1(FirstToken(m.content)) \in DOMAIN Main(
        [ commands |-> EmptyMap, descriptions |-> [ k \in {} |-> << >> ] ]).commands

\* The message is a command message whose keyword nothing registers.
UnknownCommand(m) == ~Ignorable(m) /\ ~KnownCommand(m)

\* The direct message of the not-found branch was attempted and failed.
NoticeFailed(m) == m.pc = "done" /\ m.deleted /\ ~m.dm /\ m.ran = 0

\* C13: a command message with a keyword that is not registered, from a
\* guild channel or a private one, and whether or not the deletion of the
\* message succeeds, ends with no handler called, the "unrecognized command"
\* notice sent to its author (unless the sending itself fails) and an
\* error-level entry logged.
C13_UnknownGetsNotice ==
    \A s \in Slots :
        (msgs[s].pc = "done" /\ UnknownCommand(msgs[s]) /\ ~NoticeFailed(msgs[s])) =>
            /\ msgs[s].ran = 0
            /\ msgs[s].invoked = 0
            /\ msgs[s].dm
            /\ \E i \in DOMAIN msgs[s].log : msgs[s].log[i].kind = "error"

\* C14: for a registered command received in a guild channel the deletion
\* of the message is best-effort: whether it succeeds or fails, the handler
\* found for the keyword is called, once.
C14_DeleteIsBestEffort ==
    \A s \in Slots :
        (msgs[s].pc = "done" /\ KnownCommand(msgs[s]) /\ msgs[s].guild) =>
            msgs[s].ran = 1

\* A handler completed successfully in this step: it returned its output.
HandlerCompleted ==
    \E s \in Slots :
        msgs[s].pc = "running" /\ msgs'[s].pc = "done" /\ msgs'[s].output # ""

\* A command message was taken in in this step.
CommandReceived ==
    \E s \in Slots :
        msgs[s].pc = "idle" /\ msgs'[s].pc # "idle" /\ ~Ignorable(msgs'[s])

\* C18, as stated: Bot.REQUEST_COUNT goes up by one exactly in the steps in
\* which a handler completes successfully, so that it equals the number of
\* commands whose handler completed successfully; a message with an unknown
\* keyword or a failing handler does not raise it.
C18_CountsCompletedHandlers ==
    [][ REQUEST_COUNT' = REQUEST_COUNT + (IF HandlerCompleted THEN 1 ELSE 0) ]_vars

\* C18, amended: Bot.REQUEST_COUNT goes up by one exactly in the steps in
\* which a message that no bot wrote and whose text begins with "!" is taken
\* in, before the keyword is looked up: it equals the number of such
\* messages received, those with an unknown keyword or a failing handler
\* included.
C18_CountsReceivedCommands ==
    [][ REQUEST_COUNT' = REQUEST_COUNT + (IF CommandReceived THEN 1 ELSE 0) ]_vars

C18_Witness ==
    /\ REQUEST_COUNT = 2
    /\ \E s \in Slots :
          /\ msgs[s].pc = "done"
          /\ msgs[s].content = Bang \o Str_zz
          /\ msgs[s].dm
    /\ \E s \in Slots :
          /\ msgs[s].pc = "done"
          /\ msgs[s].content = Bang \o Str_ratio \o Space \o Bang \o Str_shutdown
          /\ msgs[s].ran = 1
          /\ HasEntry(msgs[s].log, "error", "COMMAND")

\* The keywords of the startup script's seven registrations and of start.
StartupKeywords ==
    { Str_config, Str_join_group, Str_leave_group, Str_polls, Str_primary,
      Str_ratio, Str_shutdown, Str_help, Str_question }

\* C20: the registry is finalized before message handling begins: whenever
\* a message is being handled, and in every step that takes a message in,
\* the registry holds every keyword of the startup script and the "help"
\* and "?" entries of start; and from the moment start awaits the login,
\* so from the first message on, the keyword-to-handler mapping and the
\* description table never change.
C20_RegistryFinalized ==
    /\ []((\E s \in Slots : msgs[s].pc # "idle") =>
            (phase = "running" /\ DOMAIN commands = StartupKeywords))
    /\ [][ msgs' # msgs =>
              /\ DOMAIN commands = StartupKeywords
              /\ commands[Str_help].action = "help"
              /\ commands[Str_question].action = "help" ]_vars
    /\ [][ phase # "setup" =>
              (commands' = commands /\ descriptions' = descriptions) ]_vars

C20_Witness ==
    /\ DOMAIN commands = StartupKeywords
    /\ REQUEST_COUNT = 2
    /\ \E s \in Slots :
          /\ Returned(msgs[s])
          /\ msgs[s].content = Bang \o Str_help
          /\ msgs[s].ran = 1
          /\ msgs[s].output = "OUTPUT"

\* The places in a message's log where the "command used" audit entry was
\* emitted, or its emission was attempted and failed.
CommandUseEntries(log) ==
    { i \in DOMAIN log : log[i].tag \in { "COMMAND_USE", "COMMAND_USE_LOG_FAILED" } }

\* C21: for a message with a registered keyword the steps come in program
\* order and at most once each: the handler is called at most once and, in
\* a guild, only in the step in which the awaited deletion of the message
\* settles; the deletion is awaited only while no handler has been called;
\* the "command used" audit entry is emitted at most once, only in the step
\* in which the called handler returns its output, and never for a handler
\* that failed.
C21_StepsInOrder ==
    /\ [](\A s \in Slots :
            LET m == msgs[s]
            IN  /\ m.ran <= 1
                /\ Cardinality(CommandUseEntries(m.log)) <= 1
                /\ (m.ran = 1 /\ m.guild) => m.deleted
                /\ m.pc = "deleting" => (m.ran = 0 /\ ~m.deleted)
                /\ CommandUseEntries(m.log) # {} =>
                      /\ m.ran = 1
                      /\ m.output # ""
                      /\ ~HasEntry(m.log, "error", "COMMAND")
                /\ HasEntry(m.log, "error", "COMMAND") => CommandUseEntries(m.log) = {})
    /\ [][ \A s \in Slots :
              msgs'[s].ran > msgs[s].ran =>
                  /\ msgs'[s].guild => (msgs[s].pc = "deleting" /\ msgs'[s].deleted)
                  /\ CommandUseEntries(msgs'[s].log) = {} ]_vars
    /\ [][ \A s \in Slots :
              (CommandUseEntries(msgs'[s].log) # {} /\ CommandUseEntries(msgs[s].log) = {}) =>
                  (msgs[s].pc = "running" /\ msgs[s].ran = 1 /\ msgs'[s].output # "") ]_vars

C21_Witness ==
    /\ \E s \in Slots :
          /\ msgs[s].pc = "done"
          /\ msgs[s].guild
          /\ msgs[s].content = Bang \o Str_ratio \o Space \o Bang \o Str_shutdown
          /\ msgs[s].deleted
          /\ msgs[s].ran = 1
          /\ HasEntry(msgs[s].log, "audit", "COMMAND_USE")
    /\ \E s \in Slots :
          /\ msgs[s].pc = "done"
          /\ msgs[s].guild
          /\ msgs[s].deleted
          /\ msgs[s].ran = 1
          /\ HasEntry(msgs[s].log, "error", "COMMAND")

\* The command body the startup script, or start, registers under a keyword.
StartupAction(key) ==
    CASE key = Str_config -> "config"
      [] key = Str_join_group -> "joinGroup"
      [] key = Str_leave_group -> "leaveGroup"
      [] key = Str_polls -> "polls"
      [] key = Str_primary -> "primary"
      [] key = Str_ratio -> "ratio"
      [] key = Str_shutdown -> "shutdown"
      [] OTHER -> "help"

\* The tokens put together again, one space between two of them.
RECURSIVE Unsplit(_)
Unsplit(tokens) ==
    IF Len(tokens) = 1 THEN tokens[1]
    ELSE tokens[1] \o Space \o Unsplit(Tail(tokens))

\* C22: a message event calls at most one handler, and only the one
\* registered under the keyword that equals the first space-delimited token
\* without its marker: a first token that only begins with a keyword, or
\* differs from one in case, calls none; the tokens after the first, those
\* that begin with "!" included, are handed to that handler as arguments
\* and are never dispatched.
C22_FirstTokenOnly ==
    \A s \in Slots :
        LET m == msgs[s]
            key == Slice1(FirstToken(m.content))
        IN  /\ m.ran <= 1
            /\ m.ran = 0 => m.handler = ""
            /\ m.ran = 1 =>
                  /\ ~Ignorable(m)
                  /\ key \in StartupKeywords
                  /\ m.handler = StartupAction(key)
                  /\ Unsplit(<< FirstToken(m.content) >> \o m.args) = m.content
                  /\ \A i \in DOMAIN m.args :
                        \A j \in DOMAIN m.args[i] : m.args[i][j] # " "

C22_Witness ==
    /\ exitStatus = NotExited
    /\ \E s \in Slots :
          /\ msgs[s].pc = "done"
          /\ msgs[s].content = Bang \o Str_ratio \o Space \o Bang \o Str_shutdown
          /\ msgs[s].ran = 1
          /\ msgs[s].handler = "ratio"
          /\ msgs[s].args = << Bang \o Str_shutdown >>
          /\ msgs[s].output = ShutdownOutput
    /\ \E s \in Slots :
          /\ msgs[s].pc = "done"
          /\ msgs[s].content \in { Bang \o Str_ratios, Bang \o Str_Ratio }
          /\ msgs[s].ran = 0
          /\ msgs[s].dm

----------------------------------------------------------------------------
(* Properties of the dispatcher, checked under MemberSpec *)

\* C26: with shutdown registered behind the admins provision, messages of
\* members who hold no administrator role never end the process: once the
\* bot handles messages the process has not exited, the body of the
\* shutdown command is never run, and what a "!shutdown" message gets back
\* is the refusal of the provision, which is not the string that makes the
\* dispatcher exit.
C26_MembersCannotShutDown ==
    /\ exitStatus # 0
    /\ phase = "running" => exitStatus = NotExited
    /\ RejectionOutput("admins") # ShutdownOutput
    /\ \A s \in Slots :
          (msgs[s].pc # "idle" /\ FirstToken(msgs[s].content) = Bang \o Str_shutdown) =>
              /\ ~msgs[s].admin
              /\ msgs[s].invoked = 0
              /\ Returned(msgs[s]) => msgs[s].output = RejectionOutput("admins")

C26_Witness ==
    /\ exitStatus = NotExited
    /\ \E s \in Slots :
          /\ Returned(msgs[s])
          /\ msgs[s].content = Bang \o Str_shutdown \o Space \o Bang \o Str_ratio
          /\ msgs[s].handler = "shutdown"
          /\ msgs[s].ran = 1
          /\ msgs[s].output = "ADMIN_ONLY"
    /\ \E s \in Slots :
          /\ Returned(msgs[s])
          /\ msgs[s].content = Bang \o Str_ratio \o Space \o Bang \o Str_shutdown
          /\ msgs[s].output = ShutdownOutput

----------------------------------------------------------------------------
(* Properties of the audit of deleted messages, checked under DeleteSpec *)

\* The entries of a log that _logMessageDelete wrote: the message-deleted
\* audit entry, or the record that the log channel did not take it.
DeletionEntries(log) ==
    { i \in DOMAIN log :
        log[i].tag \in { "MESSAGE_DELETED", "MESSAGE_DELETE_LOG_FAILED" } }

\* C27: the message-deleted audit never records a command message: the
\* deletion of a message whose text starts with "!", be it by a user or by
\* the dispatcher deleting the message that triggered a command, logs no
\* message-deleted entry; the deletion of any other message makes exactly
\* one entry, the audit entry sent to the log channel (or the record that
\* the log channel did not take it).
C27_CommandsNotAudited ==
    /\ \A s \in Slots : DeletionEntries(msgs[s].log) = {}
    /\ gone.reported =>
          IF Len(gone.content) > 0 /\ gone.content[1] = "!"
          THEN gone.log = << >>
          ELSE /\ Len(gone.log) = 1
               /\ DeletionEntries(gone.log) = { 1 }

C27_Witness ==
    /\ gone.reported
    /\ gone.content = Space \o Bang \o Str_shutdown
    /\ gone.log = << [ kind |-> "audit", tag |-> "MESSAGE_DELETED" ] >>
    /\ \E s \in Slots :
          /\ msgs[s].pc = "done"
          /\ msgs[s].guild
          /\ msgs[s].deleted
          /\ msgs[s].ran = 1
    /\ \E s \in Slots :
          /\ msgs[s].pc = "done"
          /\ msgs[s].content = Bang \o Str_zz
          /\ msgs[s].deleted

----------------------------------------------------------------------------
(* Properties of the routine scheduler, checked under RoutineSpec *)

\* The timers running for the routines created under a name.
TimersOf(name) == { t \in timers : regs[t.reg].name = name }

\* The callback of routine r is called in this step: for the first time,
\* or ending the count of the hours since its last run.
Invoked(r) ==
    \/ regs'[r].ran # regs[r].ran
    \/ regs'[r].since = 0 /\ regs[r].since > 0
    \/ calls'[r].n > calls[r].n

\* C11: a routine name has at most one running timer: every timer running
\* is that of the routine last added under its name, with that routine's
\* callback and interval, so that after a second routine is added under a
\* name one timer runs for the name, the second routine's; and the
\* callback of a routine is not called once another routine has taken its
\* name.
C11_OneTimerPerName ==
    /\ [](\A name \in RoutineNames : Cardinality(TimersOf(name)) <= 1)
    /\ [](\A t \in timers :
            /\ Live(regs, t.reg)
            /\ t.cb = regs[t.reg].cb
            /\ t.interval = regs[t.reg].interval)
    /\ [](\A r \in DOMAIN regs :
            Live(regs, r) => Cardinality({ t \in timers : t.reg = r }) = 1)
    /\ [][ \A r \in DOMAIN regs :
              Invoked(r) => \A q \in DOMAIN regs : q > r => regs[q].name # regs[r].name ]_vars

C11_Witness ==
    /\ Len(regs) = 2
    /\ regs[1].name = "groups" /\ regs[1].ran /\ regs[1].since = 1
    /\ regs[2].name = "groups" /\ regs[2].ran /\ regs[2].interval = 1
    /\ timers = { [ reg |-> 2, cb |-> "task", interval |-> 1, left |-> 1 ] }

\* C12: a routine is not run when it is added: its callback is first
\* called when its whole interval has elapsed (and then again each time
\* the interval has elapsed); and the callback of a routine terminated
\* by name is not called from then on, so that a routine terminated
\* before its interval elapsed is never run.
C12_TerminatedNeverRuns ==
    /\ [][ Len(regs') > Len(regs) =>
              /\ calls' = calls
              /\ \A r \in DOMAIN regs : ~Invoked(r)
              /\ ~regs'[Len(regs')].ran
              /\ \A t \in timers' : t.reg = Len(regs') => t.left = t.interval /\ t.left >= 1 ]_vars
    /\ [][ \A r \in DOMAIN regs :
              Invoked(r) =>
                  (~regs[r].stopped /\ regs[r].since = regs[r].interval) ]_vars
    /\ [][ \A r \in DOMAIN regs : regs[r].stopped => regs'[r].stopped ]_vars

C12_Witness ==
    /\ Len(regs) = 2
    /\ regs[1].name = "groups" /\ regs[1].stopped
    /\ regs[1].since = 0 /\ ~regs[1].ran
    /\ regs[2].name = "calendar" /\ regs[2].ran

\* An invocation of the callback of routine r fails in this step.
Fails(r) == regs'[r].due /\ (~regs[r].due \/ Invoked(r))

\* C19: a callback that fails neither stops nor crashes the scheduler: the
\* step in which an invocation fails logs an error entry, ends no process
\* and leaves the table and every timer as they are; the routine is next
\* run when its interval has elapsed; and for a routine whose callback
\* failed the hours go on being counted and the count comes to its end,
\* which is the next run, unless the routine is terminated or another
\* routine takes its name.
C19_FailureKeepsRoutine ==
    /\ [][ \A r \in DOMAIN regs :
              Fails(r) =>
                  /\ slog'.kind = "error"
                  /\ exitStatus' = exitStatus
                  /\ routines' = routines
                  /\ { t.reg : t \in timers' } = { t.reg : t \in timers }
                  /\ ~Invoked(r) => timers' = timers ]_vars
    /\ [][ \A r \in DOMAIN regs :
              (regs[r].due /\ Invoked(r)) => regs[r].since = regs[r].interval ]_vars
    /\ \A r \in 1..MaxRegs :
          /\ (r \in DOMAIN regs /\ regs[r].due /\ regs[r].since = 0)
                ~> (r \in DOMAIN regs /\ (regs[r].since > 0 \/ ~Live(regs, r)))
          /\ (r \in DOMAIN regs /\ regs[r].due /\ regs[r].since > 0)
                ~> (r \in DOMAIN regs /\ (regs[r].since = 0 \/ ~Live(regs, r)))

C19_Witness ==
    /\ Len(regs) >= 1
    /\ regs[1].cb = "_notifyOfActiveGroups"
    /\ regs[1].due
    /\ regs[1].since = 1
    /\ Live(regs, 1)
    /\ slog = NoEntry
    /\ \E t \in timers : t.reg = 1 /\ t.left = 1

----------------------------------------------------------------------------
(* Properties of the event cache, checked under StoreSpec *)

\* C23: after add(id, e), whatever the cache held before, has(id) is true
\* and the event stored under id is e.
C23_AddSetsEntry ==
    lastAdd.called =>
        /\ has(_events, lastAdd.id)
        /\ _events[lastAdd.id] = lastAdd.e

====
